---- MODULE Spec2Model ----
(***************************************************************************)
(* The version/verack handshake of protocol_version_31402 on one channel,  *)
(* and the version message it sends (version_factory with                  *)
(* authority::to_network_address).                                         *)
(*                                                                         *)
(* The handshake callbacks of one channel are serialised, so every handler *)
(* is one atomic action.  The channel, the message subscriber, the timer   *)
(* base class and the two-of-two synchronizer are collaborators whose code *)
(* is not part of the translated sources; they are modelled from their     *)
(* specified behaviour.                                                    *)
(***************************************************************************)
EXTENDS Integers, Sequences, FiniteSets, TLC

\* ------------------------------------------------------------------ bounds

\* Service bit masks range over 0..MaxServices.
MaxServices == 3

\* Nonces range over 1..MaxNonce.
MaxNonce == 2

\* ---------------------------------------------------------------- constants

\* version::level::minimum and version::level::maximum, the floor and the
\* ceiling the configuration is validated against (the values are those of
\* the message library the protocol is built on).
level_minimum == 31402
level_maximum == 70012

\* Integers wider than 31 bits are kept as 16-bit limbs, least significant
\* first: a size_t has four limbs, a uint32_t two.  max_uint32 as a size_t:
max_uint32 == <<65535, 65535, 0, 0>>

\* BC_USER_AGENT, the user agent compiled into the library.
BC_USER_AGENT == "/libbitcoin:3.0.0/"

\* version::service::none.
service_none == 0

\* The clearance count given to synchronize() by start().
clearance_count_bug == 2 - 1

clearance_count == 2

\* Error codes.
success == "success"
channel_stopped == "channel_stopped"
channel_timeout == "channel_timeout"
bad_stream == "bad_stream"
accept_failed == "accept_failed"

\* --------------------------------------------------------------- value sets

\* Protocol versions around the floor and the ceiling.
Versions == {level_minimum - 1, level_minimum, level_maximum, level_maximum + 1}

Services == 0..MaxServices

Nonces == 1..MaxNonce

\* Block heights (size_t) around the u32 boundary.
Heights == {<<0, 0, 0, 0>>, <<1, 0, 0, 0>>, max_uint32, <<0, 0, 1, 0>>,
            <<1, 0, 1, 0>>}

\* Authorities: 16 address bytes (abstracted to a tag) and a u16 port.
Authorities == [ip : {"::ffff:1.2.3.4", "2001:db8::1"}, port : {0, 8333}]

UserAgents == {BC_USER_AGENT, "/custom:1.0/"}

\* Codes a receive or a send can complete with while the channel is live.
LiveCodes == {success, bad_stream}

NoMessage == [command |-> "none"]

NoEvent == [code |-> "none", by |-> "none"]

\* No authority is being parsed or formatted.
NoAuthority == [stage |-> "none"]

\* ------------------------------------------------------------------- state

VARIABLES
    settings,            \* network_.network_settings()
    minimum_version,     \* minimum_version_
    minimum_services,    \* minimum_services_
    authority,           \* the channel's peer authority
    nonce,               \* the channel's nonce
    height,              \* network_.height()
    pending,             \* nonces in PendingChannels
    pc,                  \* "constructed" or "started"
    channel_is_stopped,  \* the channel's stopped flag
    negotiated_version,  \* the channel's negotiated version
    set_calls,           \* number of set_negotiated_version calls
    subscribed,          \* message types the protocol is subscribed to
    inflight,            \* sends submitted whose completion is outstanding
    sent,                \* messages submitted for sending, in order
    timer,               \* "idle", "armed", "fired" or "cancelled"
    counter,             \* the synchronizer's counter
    invoked,             \* invocations of the handshake handler, in order
    peer,                \* the version message received, or NoMessage
    outcome,             \* what handle_receive_version did with it
    verack_outcome,      \* what handle_receive_verack did
    success_events,      \* success events raised before any error event
    error_raised,        \* whether an error event was raised
    last_event,          \* the event raised last: its code and its source
    argument             \* an authority being parsed or formatted

vars == <<settings, minimum_version, minimum_services, authority, nonce,
          height, pending, pc, channel_is_stopped, negotiated_version,
          set_calls, subscribed, inflight, sent, timer, counter, invoked,
          peer, outcome, verack_outcome, success_events, error_raised,
          last_event, argument>>

config_vars == <<settings, minimum_version, minimum_services, authority,
                 nonce, height, pending, argument>>

\* ----------------------------------------------------------------- helpers

Min(a, b) == IF a <= b THEN a ELSE b
Max(a, b) == IF a >= b THEN a ELSE b

RECURSIVE BitAnd(_, _)
BitAnd(a, b) ==
    IF a = 0 \/ b = 0 THEN 0
    ELSE (IF a % 2 = 1 /\ b % 2 = 1 THEN 1 ELSE 0)
         + 2 * BitAnd(a \div 2, b \div 2)

\* static_cast<uint32_t>(height): the two low limbs.  The assertion
\* height <= max_uint32 before it is compiled out of release builds, so a
\* larger height is truncated.
to_uint32(n) == <<n[1], n[2]>>


\* authority::to_network_address: timestamp and services are zero.
to_network_address(a) ==
    [timestamp |-> 0, services |-> 0, ip |-> a.ip, port |-> a.port]

\* protocol_version_31402::version_factory.  The timestamp is the wall clock
\* at the call and is left out of the record.
version_factory_bug(auth, s, n, h) ==
    [command          |-> "version",
     value            |-> s.protocol_maximum,
     services         |-> s.services,
     address_receiver |-> to_network_address(auth),
     address_sender   |-> to_network_address(s.self),
     nonce            |-> n,
     user_agent       |-> BC_USER_AGENT,
     start_height     |-> to_uint32(h)]

version_factory(auth, s, n, h) ==
    [command          |-> "version",
     value            |-> s.protocol_maximum,
     services         |-> s.services,
     address_receiver |-> [to_network_address(auth)
                              EXCEPT !.services = service_none],
     address_sender   |-> [to_network_address(s.self)
                              EXCEPT !.services = s.services],
     nonce            |-> n,
     user_agent       |-> BC_USER_AGENT,
     start_height     |-> to_uint32(h)]

verack == [command |-> "verack"]

rejection(reason) ==
    [command |-> "reject", message |-> "version", code |-> "obsolete",
     reason |-> reason]

\* ------------------------------------------------- collaborators (modelled)

\* protocol::stopped(): the composite stop signal, the channel's flag.
stopped == channel_is_stopped

\* synchronize(handler, count, NAME, false): the counter after one more
\* event.  An error clears the synchronizer at once, a success counts one,
\* and a cleared synchronizer ignores the event.
next_count(count, ec) ==
    IF counter >= count THEN counter
    ELSE IF ec # success THEN count
    ELSE counter + 1

\* The synchronized handler: the handshake handler is invoked by the event
\* that clears the synchronizer.
synchronize(count, ec, by) ==
    /\ counter' = next_count(count, ec)
    /\ invoked' = IF counter < count /\ next_count(count, ec) >= count
                  THEN Append(invoked, [code |-> ec, by |-> by])
                  ELSE invoked

\* The event handler start() registers with protocol_timer::start:
\* synchronize(handler, 2, NAME, false).
event_handler_unsynchronized(ec, by) ==
    /\ counter' = counter
    /\ invoked' = Append(invoked, [code |-> ec, by |-> by])

\* The same with errors suppressed (the last argument true): an error counts
\* like a success.
event_handler_suppressing(ec, by) == synchronize(clearance_count, success, by)

event_handler(ec, by) == synchronize(clearance_count, ec, by)

\* protocol_events::set_event: the event is given to the registered handler.
\* success_events and error_raised keep the history of the events raised:
\* the success events raised before any error, and whether an error was.
set_event(ec, by) ==
    /\ event_handler(ec, by)
    /\ error_raised' = (error_raised \/ ec # success)
    /\ success_events' = IF ec = success /\ ~error_raised
                         THEN success_events + 1 ELSE success_events
    /\ last_event' = [code |-> ec, by |-> by]

no_event ==
    UNCHANGED <<counter, invoked, error_raised, success_events, last_event>>

\* --------------------------------------------------------------------- init

\* The three checks of the configuration in handle_receive_version.
configuration_valid_bug(s) ==
    /\ s.protocol_minimum >= level_minimum
    /\ s.protocol_maximum <= level_maximum

configuration_valid(s) ==
    /\ ~(s.protocol_minimum < level_minimum)
    /\ ~(s.protocol_maximum > level_maximum)
    /\ ~(s.protocol_minimum > s.protocol_maximum)

InitialState ==
    /\ pc = "constructed"
    /\ channel_is_stopped = FALSE
    /\ negotiated_version = settings.protocol_minimum
    /\ set_calls = 0
    /\ subscribed = {}
    /\ inflight = {}
    /\ sent = <<>>
    /\ timer = "idle"
    /\ counter = 0
    /\ invoked = <<>>
    /\ peer = NoMessage
    /\ outcome = "none"
    /\ verack_outcome = "none"
    /\ success_events = 0
    /\ error_raised = FALSE
    /\ last_event = NoEvent

\* The constructors: the two-argument one requires the configured minimum
\* version and services, the four-argument one whatever it is given.  The
\* channel is an outbound one, whose own nonce is pending until the handshake
\* completes.
Init ==
    /\ settings \in [protocol_minimum : Versions, protocol_maximum : Versions,
                     services : {1}, self : {[ip |-> "::ffff:5.6.7.8", port |-> 8333]},
                     user_agent : {BC_USER_AGENT}]
    /\ \/ /\ minimum_version = settings.protocol_minimum
          /\ minimum_services = settings.services
       \/ /\ minimum_version \in Versions
          /\ minimum_services \in Services
    /\ authority = [ip |-> "::ffff:1.2.3.4", port |-> 8333]
    /\ nonce = 1
    /\ height = <<0, 0, 0, 0>>
    /\ pending = {nonce}
    /\ argument = NoAuthority
    /\ InitialState

\* ------------------------------------------------------------------ actions

\* protocol_version_31402::start and send_version.
start_without_timer ==
    /\ pc = "constructed"
    /\ pc' = "started"
    /\ timer' = "idle"
    /\ subscribed' = {"version", "verack"}
    /\ sent' = Append(sent, version_factory(authority, settings, nonce, height))
    /\ inflight' = inflight \cup {"version"}
    /\ UNCHANGED <<config_vars, channel_is_stopped, negotiated_version,
                   set_calls, counter, invoked, peer, outcome, verack_outcome,
                   success_events, error_raised, last_event>>

start_sending_verack ==
    /\ pc = "constructed"
    /\ pc' = "started"
    /\ timer' = "armed"
    /\ subscribed' = {"version", "verack"}
    /\ sent' = sent \o <<version_factory(authority, settings, nonce, height),
                          verack>>
    /\ inflight' = inflight \cup {"version", "verack"}
    /\ UNCHANGED <<config_vars, channel_is_stopped, negotiated_version,
                   set_calls, counter, invoked, peer, outcome, verack_outcome,
                   success_events, error_raised, last_event>>

start ==
    /\ pc = "constructed"
    /\ pc' = "started"
    /\ timer' = "armed"
    /\ subscribed' = {"version", "verack"}
    /\ sent' = Append(sent, version_factory(authority, settings, nonce, height))
    /\ inflight' = inflight \cup {"version"}
    /\ UNCHANGED <<config_vars, channel_is_stopped, negotiated_version,
                   set_calls, counter, invoked, peer, outcome, verack_outcome,
                   success_events, error_raised, last_event>>

\* The tests of the peer's version in handle_receive_version.
sufficient_services_bug(services) ==
    BitAnd(services, minimum_services) # 0 \/ minimum_services = 0

sufficient_services(services) ==
    BitAnd(services, minimum_services) = minimum_services

sufficient_version_bug(value) == ~(value < settings.protocol_minimum)

sufficient_version(value) == ~(value < minimum_version)

\* std::min(message->value, settings.protocol_maximum)
negotiate_bug(value, maximum) == Max(value, maximum)

negotiate(value, maximum) == Min(value, maximum)

\* What handle_receive_version decides for a version received without error
\* on a live channel: the checks in their order.
decision_bug(message) ==
    IF ~configuration_valid(settings) THEN "config"
    ELSE IF ~sufficient_version(message.value) THEN "version"
    ELSE IF ~sufficient_services(message.services) THEN "services"
    ELSE "accepted"

decision(message) ==
    IF ~configuration_valid(settings) THEN "config"
    ELSE IF ~sufficient_services(message.services) THEN "services"
    ELSE IF ~sufficient_version(message.value) THEN "version"
    ELSE "accepted"

\* The value handle_receive_version and handle_receive_verack return: false
\* on every path, which ends the subscription.
receive_returns_bug(out) == out = "accepted"

receive_returns(out) == FALSE

\* The event handle_receive_version raises right after it has submitted a
\* reject: it does not wait for the send to complete.
reject_event_bug == no_event

reject_event == set_event(channel_stopped, "version")

\* protocol_version_31402::handle_receive_version.
handle_receive_version(ec, message) ==
    /\ pc = "started"
    /\ "version" \in subscribed
    /\ IF stopped THEN
          /\ outcome' = "stopped"
          /\ no_event
          /\ UNCHANGED <<peer, sent, inflight, negotiated_version, set_calls>>
       ELSE IF ec # success THEN
          /\ outcome' = "error"
          /\ set_event(ec, "version")
          /\ UNCHANGED <<peer, sent, inflight, negotiated_version, set_calls>>
       ELSE
          /\ peer' = message
          /\ outcome' = decision(message)
          /\ CASE decision(message) = "config" ->
                  /\ set_event(channel_stopped, "version")
                  /\ UNCHANGED <<sent, inflight, negotiated_version, set_calls>>
               [] decision(message) = "services" ->
                  /\ sent' = Append(sent, rejection("insufficient-services"))
                  /\ inflight' = inflight \cup {"reject"}
                  /\ reject_event
                  /\ UNCHANGED <<negotiated_version, set_calls>>
               [] decision(message) = "version" ->
                  /\ sent' = Append(sent, rejection("insufficient-version"))
                  /\ inflight' = inflight \cup {"reject"}
                  /\ reject_event
                  /\ UNCHANGED <<negotiated_version, set_calls>>
               [] OTHER ->
                  /\ negotiated_version' =
                         negotiate(message.value, settings.protocol_maximum)
                  /\ set_calls' = set_calls + 1
                  /\ sent' = Append(sent, verack)
                  /\ inflight' = inflight \cup {"verack"}
                  /\ set_event(success, "version")
    /\ subscribed' = IF receive_returns(outcome') THEN subscribed
                     ELSE subscribed \ {"version"}
    /\ UNCHANGED <<config_vars, pc, channel_is_stopped, timer, verack_outcome>>

\* protocol_version_31402::handle_receive_verack.
handle_receive_verack(ec) ==
    /\ pc = "started"
    /\ "verack" \in subscribed
    /\ IF stopped THEN
          /\ verack_outcome' = "stopped"
          /\ no_event
       ELSE IF ec # success THEN
          /\ verack_outcome' = "error"
          /\ set_event(ec, "verack")
       ELSE
          /\ verack_outcome' = "received"
          /\ set_event(success, "verack")
    /\ subscribed' = IF receive_returns(verack_outcome') THEN subscribed
                     ELSE subscribed \ {"verack"}
    /\ UNCHANGED <<config_vars, pc, channel_is_stopped, negotiated_version,
                   set_calls, inflight, sent, timer, peer, outcome>>

\* protocol_version_31402::handle_version_sent.
handle_version_sent(ec) ==
    /\ "version" \in inflight
    /\ inflight' = inflight \ {"version"}
    /\ IF stopped THEN no_event
       ELSE IF ec # success THEN set_event(ec, "version_sent")
       ELSE no_event
    /\ UNCHANGED <<config_vars, pc, channel_is_stopped, negotiated_version,
                   set_calls, subscribed, sent, timer, peer, outcome,
                   verack_outcome>>

\* protocol_version_31402::handle_verack_sent.
handle_verack_sent_unguarded(ec) ==
    /\ "verack" \in inflight
    /\ inflight' = inflight \ {"verack"}
    /\ IF ec # success THEN set_event(ec, "verack_sent") ELSE no_event
    /\ UNCHANGED <<config_vars, pc, channel_is_stopped, negotiated_version,
                   set_calls, subscribed, sent, timer, peer, outcome,
                   verack_outcome>>

handle_verack_sent(ec) ==
    /\ "verack" \in inflight
    /\ inflight' = inflight \ {"verack"}
    /\ IF stopped THEN no_event
       ELSE IF ec # success THEN set_event(ec, "verack_sent")
       ELSE no_event
    /\ UNCHANGED <<config_vars, pc, channel_is_stopped, negotiated_version,
                   set_calls, subscribed, sent, timer, peer, outcome,
                   verack_outcome>>

\* protocol::handle_send, the completion of the reject send: it only logs.
handle_send(ec) ==
    /\ "reject" \in inflight
    /\ inflight' = inflight \ {"reject"}
    /\ no_event
    /\ UNCHANGED <<config_vars, pc, channel_is_stopped, negotiated_version,
                   set_calls, subscribed, sent, timer, peer, outcome,
                   verack_outcome>>

\* protocol_timer::handle_timer: the one-shot handshake timer expires.
handle_timer ==
    /\ timer = "armed"
    /\ timer' = "fired"
    /\ IF stopped THEN no_event ELSE set_event(channel_timeout, "timer")
    /\ UNCHANGED <<config_vars, pc, channel_is_stopped, negotiated_version,
                   set_calls, subscribed, inflight, sent, peer, outcome,
                   verack_outcome>>

\* channel::stop and protocol_events::handle_stopped: the flag flips, the
\* timer is cancelled and the protocol raises the channel-stopped event.
\* The stop code reaches the message subscribers and the outstanding sends
\* through the receive and completion actions below.
stop ==
    /\ pc = "started"
    /\ ~channel_is_stopped
    /\ channel_is_stopped' = TRUE
    /\ timer' = IF timer = "armed" THEN "cancelled" ELSE timer
    /\ set_event(channel_stopped, "stop")
    /\ UNCHANGED <<config_vars, pc, negotiated_version, set_calls, subscribed,
                   inflight, sent, peer, outcome, verack_outcome>>

\* Version messages a peer can send.
PeerVersions ==
    [command : {"version"}, value : Versions, services : Services,
     nonce : Nonces]

\* The codes a callback can be given: the stop code once the channel is
\* stopped, success or an error while it is live.
Codes == IF channel_is_stopped THEN {channel_stopped} ELSE LiveCodes

Next ==
    \/ start
    \/ \E m \in PeerVersions :
           ~channel_is_stopped /\ handle_receive_version(success, m)
    \/ \E ec \in Codes \ {success} : handle_receive_version(ec, NoMessage)
    \/ \E ec \in Codes : handle_receive_verack(ec)
    \/ \E ec \in Codes : handle_version_sent(ec)
    \/ \E ec \in Codes : handle_verack_sent(ec)
    \/ \E ec \in Codes : handle_send(ec)
    \/ handle_timer
    \/ stop

Spec == Init /\ [][Next]_vars

\* The handshake built by the two-argument constructor, under the fairness
\* the timer gives: the one-shot handshake timer expires unless it is
\* cancelled.
LiveInit ==
    /\ Init
    /\ minimum_version = settings.protocol_minimum
    /\ minimum_services = settings.services

LiveSpec == LiveInit /\ [][Next]_vars /\ WF_vars(handle_timer)

\* The version message alone: every input of version_factory is drawn from
\* its set and start() sends the message built from them.
FactoryInit ==
    /\ settings \in [protocol_minimum : {level_minimum},
                     protocol_maximum : Versions,
                     services : Services, self : Authorities,
                     user_agent : UserAgents]
    /\ minimum_version = settings.protocol_minimum
    /\ minimum_services = settings.services
    /\ authority \in Authorities
    /\ nonce \in Nonces
    /\ height \in Heights
    /\ pending = {}
    /\ argument = NoAuthority
    /\ InitialState

FactoryNext == start

FactorySpec == FactoryInit /\ [][FactoryNext]_vars

\* ---------------------------------------------------------------- authority

\* Text is a sequence of characters.
Digits == {"0", "1", "2", "3", "4", "5", "6", "7", "8", "9"}

\* The character classes of the patterns: [0-9\.] and [0-9a-f:\.].
HostClass == Digits \cup {"."}
BracketClass == Digits \cup {"a", "b", "c", "d", "e", "f", ":", "."}

DigitValue(c) ==
    CASE c = "0" -> 0 [] c = "1" -> 1 [] c = "2" -> 2 [] c = "3" -> 3
      [] c = "4" -> 4 [] c = "5" -> 5 [] c = "6" -> 6 [] c = "7" -> 7
      [] c = "8" -> 8 [] c = "9" -> 9

DigitChar(n) ==
    CASE n = 0 -> "0" [] n = 1 -> "1" [] n = 2 -> "2" [] n = 3 -> "3"
      [] n = 4 -> "4" [] n = 5 -> "5" [] n = 6 -> "6" [] n = 7 -> "7"
      [] n = 8 -> "8" [] n = 9 -> "9"

\* The largest uint16_t.
max_uint16 == 65535

\* An IPv6 address is its eight 16-bit words.  The addresses of the model:
\* the mapped 1.2.3.4, 2001:db8::1, 1::ffff:1234 and ::ffff:1234.
ip_mapped == <<0, 0, 0, 0, 0, 65535, 258, 772>>
ip_native == <<8193, 3512, 0, 0, 0, 0, 0, 1>>
ip_native_ffff == <<1, 0, 0, 0, 0, 0, 65535, 4660>>
ip_compatible == <<0, 0, 0, 0, 0, 0, 65535, 4660>>
ip_short == <<0, 0, 0, 0, 0, 0, 65535, 8193>>

txt_1234 == <<"1", ".", "2", ".", "3", ".", "4">>
txt_123 == <<"1", ".", "2", ".", "3">>
txt_ffff == <<":", ":", "f", "f", "f", "f", ":">>
txt_native == <<"2", "0", "0", "1", ":", "d", "b", "8", ":", ":", "1">>
txt_native_ffff == <<"1">> \o txt_ffff \o <<"1", "2", "3", "4">>
txt_compatible ==
    <<":", ":", "2", "5", "5", ".", "2", "5", "5", ".", "1", "8", ".", "5", "2">>

\* ip::address_v6::to_string of the library: the canonical text.
address_to_string(ip) ==
    CASE ip = ip_mapped -> txt_ffff \o txt_1234
      [] ip = ip_native -> txt_native
      [] ip = ip_native_ffff -> txt_native_ffff
      [] ip = ip_compatible -> txt_compatible
      [] ip = ip_short ->
             <<":", ":", "2", "5", "5", ".", "2", "5", "5", ".", "3", "2",
               ".", "1">>

\* ip::address_v6::from_string of the library: the address a text denotes,
\* the empty tuple for a text that denotes none (the library throws).
from_string(text) ==
    CASE text = txt_ffff \o txt_1234 -> ip_mapped
      [] text = txt_native -> ip_native
      [] text = txt_native_ffff -> ip_native_ffff
      [] text = txt_compatible -> ip_compatible
      [] text = txt_ffff \o <<"1", "2", "3", "4">> -> ip_compatible
      [] text = txt_ffff \o <<"2", "0", "0", "1">> -> ip_short
      [] OTHER -> <<>>

from_string_throws(text) == from_string(text) = <<>>

\* The length of the longest run of characters of a class from position i.
RECURSIVE RunLength(_, _, _)
RunLength(text, i, class) ==
    IF i > Len(text) \/ text[i] \notin class THEN 0
    ELSE 1 + RunLength(text, i + 1, class)

Contains(text, c) == \E i \in 1..Len(text) : text[i] = c

\* lexical_cast<uint16_t>: the value of a digit string; the cast throws when
\* the string is empty or exceeds the type.  The sum saturates just above
\* the type.
RECURSIVE DigitsValue(_, _)
DigitsValue(text, acc) ==
    IF text = <<>> THEN acc
    ELSE DigitsValue(Tail(text),
                     Min(acc * 10 + DigitValue(Head(text)), max_uint16 + 1))

lexical_cast_throws(text) ==
    text = <<>> \/ DigitsValue(text, 0) > max_uint16

lexical_cast_uint16(text) == DigitsValue(text, 0)

\* The decimal text of a number, as the stream writes a port.
RECURSIVE Decimal(_)
Decimal(n) ==
    IF n < 10 THEN <<DigitChar(n)>>
    ELSE Decimal(n \div 10) \o <<DigitChar(n % 10)>>

\* The optional group (:([0-9]{1,10}))? at position j: the digits it
\* captures, none when the group does not match.
port_group(text, j) ==
    IF j <= Len(text) /\ text[j] = ":"
    THEN SubSeq(text, j + 1, j + Min(RunLength(text, j + 1, Digits), 10))
    ELSE <<>>

\* The end of the optional group at position j (the position after it).
port_group_end(text, j) ==
    IF port_group(text, j) = <<>> THEN j ELSE j + 1 + Len(port_group(text, j))

\* The pattern (([0-9\.]+)|\[([0-9a-f:\.]+)])(:([0-9]{1,10}))? tried at
\* position i: whether it matches there, its groups 2, 3 and 5 and the
\* position after the match.
match_at(text, i) ==
    LET plain == RunLength(text, i, HostClass)
        inner == RunLength(text, i + 1, BracketClass)
    IN  IF plain >= 1 THEN
            [found |-> TRUE, m2 |-> SubSeq(text, i, i + plain - 1),
             m3 |-> <<>>, m5 |-> port_group(text, i + plain),
             end |-> port_group_end(text, i + plain)]
        ELSE IF /\ text[i] = "["
                /\ inner >= 1
                /\ i + 1 + inner <= Len(text)
                /\ text[i + 1 + inner] = "]" THEN
            [found |-> TRUE, m2 |-> <<>>,
             m3 |-> SubSeq(text, i + 1, i + inner),
             m5 |-> port_group(text, i + inner + 2),
             end |-> port_group_end(text, i + inner + 2)]
        ELSE [found |-> FALSE, m2 |-> <<>>, m3 |-> <<>>, m5 |-> <<>>,
              end |-> i]

\* sregex_iterator it(value.begin(), value.end(), regular): the first match
\* of the pattern anywhere in the text.
regex_search(text) ==
    IF \E i \in 1..Len(text) : match_at(text, i).found
    THEN match_at(text,
                  CHOOSE i \in 1..Len(text) :
                      /\ match_at(text, i).found
                      /\ \A k \in 1..(i - 1) : ~match_at(text, k).found)
    ELSE [found |-> FALSE, m2 |-> <<>>, m3 |-> <<>>, m5 |-> <<>>, end |-> 1]

\* The result of a failed parse: invalid_option_value is thrown.
invalid_option_value == [valid |-> FALSE]

\* to_ipv6(const std::string&).
to_ipv6(ipv4_address) == txt_ffff \o ipv4_address

\* operator>>(std::istream&, authority&).
parse_authority(text) ==
    LET match == regex_search(text)
        ip_address == IF match.m3 = <<>> THEN to_ipv6(match.m2) ELSE match.m3
    IN  IF ~match.found THEN invalid_option_value
        ELSE IF from_string_throws(ip_address) THEN invalid_option_value
        ELSE IF lexical_cast_throws(match.m5) THEN invalid_option_value
        ELSE [valid |-> TRUE, ip |-> from_string(ip_address),
              port |-> lexical_cast_uint16(match.m5)]

\* to_ipv4_hostname: the first match of ::ffff:([0-9\.]+) anywhere in the
\* address text, its group 1, or the empty text.
to_ipv4_hostname(ip) ==
    LET address == address_to_string(ip)
        at(i) == /\ i + 6 <= Len(address)
                 /\ SubSeq(address, i, i + 6) = txt_ffff
                 /\ RunLength(address, i + 7, HostClass) >= 1
    IN  IF \E i \in 1..Len(address) : at(i)
        THEN LET i == CHOOSE i \in 1..Len(address) :
                          at(i) /\ \A k \in 1..(i - 1) : ~at(k)
             IN  SubSeq(address, i + 7,
                        i + 6 + RunLength(address, i + 7, HostClass))
        ELSE <<>>

\* to_ipv6_hostname: the bracketed address text.
to_ipv6_hostname(ip) == <<"[">> \o address_to_string(ip) \o <<"]">>

\* authority::to_hostname.
authority_to_hostname(a) ==
    IF to_ipv4_hostname(a.ip) = <<>> THEN to_ipv6_hostname(a.ip)
    ELSE to_ipv4_hostname(a.ip)

\* The static to_hostname(const std::string&).
to_hostname(host) ==
    IF ~Contains(host, ":") \/ Contains(host, "[") THEN host
    ELSE <<"[">> \o host \o <<"]">>

\* to_authority: the port is written only when it is not zero.
to_authority(host, port) ==
    to_hostname(host) \o (IF port > 0 THEN <<":">> \o Decimal(port) ELSE <<>>)

\* operator<<(std::ostream&, const authority&) and authority::to_string.
format_authority(a) == to_authority(authority_to_hostname(a), a.port)

\* authority::operator==: the address bytes and the port.
authority_equal(a, b) == a.ip = b.ip /\ a.port = b.port

\* The authorities formatted and the texts parsed.
AuthorityValues ==
    [valid : {TRUE}, ip : {ip_mapped, ip_native, ip_native_ffff},
     port : {0, 1, 8333, max_uint16}]

HostTexts ==
    {txt_1234,
     <<"[">> \o txt_native \o <<"]">>,
     <<"[">> \o txt_ffff \o txt_1234 \o <<"]">>,
     <<"[">> \o txt_native_ffff \o <<"]">>,
     txt_123,
     txt_native}

PortTexts ==
    {<<>>, <<":">>, <<":", "0">>, <<":", "8", "3", "3", "3">>,
     <<":", "6", "5", "5", "3", "5">>, <<":", "6", "5", "5", "3", "6">>}

Padding == {<<>>, <<"x">>}

InputTexts ==
    {before \o host \o port \o after :
        before \in Padding, host \in HostTexts, port \in PortTexts,
        after \in Padding}

handshake_vars ==
    <<settings, minimum_version, minimum_services, authority, nonce, height,
      pending, pc, channel_is_stopped, negotiated_version, set_calls,
      subscribed, inflight, sent, timer, counter, invoked, peer, outcome,
      verack_outcome, success_events, error_raised, last_event>>

\* A text to parse or an authority to format.
AuthorityInit ==
    /\ settings = [protocol_minimum |-> level_minimum,
                   protocol_maximum |-> level_maximum, services |-> 1,
                   self |-> [ip |-> "::ffff:5.6.7.8", port |-> 8333],
                   user_agent |-> BC_USER_AGENT]
    /\ minimum_version = settings.protocol_minimum
    /\ minimum_services = settings.services
    /\ authority = [ip |-> "::ffff:1.2.3.4", port |-> 8333]
    /\ nonce = 1
    /\ height = <<0, 0, 0, 0>>
    /\ pending = {}
    /\ InitialState
    /\ \/ \E text \in InputTexts :
             argument = [stage |-> "text", text |-> text,
                         value |-> invalid_option_value,
                         result |-> invalid_option_value, output |-> <<>>]
       \/ \E a \in AuthorityValues :
             argument = [stage |-> "value", text |-> <<>>, value |-> a,
                         result |-> invalid_option_value, output |-> <<>>]

\* authority(const std::string&): the text is parsed.
parse_text ==
    /\ argument.stage = "text"
    /\ argument' = [argument EXCEPT !.stage = "parsed",
                                    !.value = parse_authority(argument.text)]
    /\ UNCHANGED handshake_vars

\* to_string() of the authority parsed.
format_parsed ==
    /\ argument.stage = "parsed"
    /\ argument.value.valid
    /\ argument' = [argument EXCEPT !.stage = "reformatted",
                                    !.output = format_authority(argument.value)]
    /\ UNCHANGED handshake_vars

\* to_string() of an authority.
format_value ==
    /\ argument.stage = "value"
    /\ argument' = [argument EXCEPT !.stage = "formatted",
                                    !.text = format_authority(argument.value)]
    /\ UNCHANGED handshake_vars

\* The text written is parsed back.
parse_formatted ==
    /\ argument.stage = "formatted"
    /\ argument' = [argument EXCEPT !.stage = "reparsed",
                                    !.result = parse_authority(argument.text)]
    /\ UNCHANGED handshake_vars

AuthorityNext ==
    \/ parse_text
    \/ format_parsed
    \/ format_value
    \/ parse_formatted

AuthoritySpec == AuthorityInit /\ [][AuthorityNext]_vars

\* ------------------------------------------------------------------ claims

Commands(c) == {i \in 1..Len(sent) : sent[i].command = c}

HandlerSuccess == \E i \in 1..Len(invoked) : invoked[i].code = success

\* The configuration passes the three checks, restated from the settings.
ConfigurationOk ==
    /\ settings.protocol_minimum >= level_minimum
    /\ settings.protocol_maximum <= level_maximum
    /\ settings.protocol_minimum <= settings.protocol_maximum

\* A version message was received without error on a live channel.
VersionReceived == peer # NoMessage

\* The handshake failed, and with ChannelStopped when it was the version
\* receipt that completed it.
FailedWithChannelStopped ==
    /\ Len(invoked) = 1
    /\ invoked[1].code # success
    /\ invoked[1].by = "version" => invoked[1].code = channel_stopped

\* C1: the handshake handler is invoked at most once, and once it has been
\* invoked no later event invokes it again or changes the reported code.
C1_HandlerAtMostOnce ==
    [][Len(invoked') <= 1 /\ (invoked # <<>> => invoked' = invoked)]_vars

\* C1 witness: the handler has been invoked and a later event (the peer's
\* verack) was raised after it.
C1_Witness ==
    /\ Len(invoked) = 1
    /\ invoked[1].by = "timer"
    /\ verack_outcome = "received"
    /\ outcome = "accepted"

\* C2: the handler is invoked with success exactly when both success events
\* (a version that passed the checks, a verack received without error) were
\* raised before any error event, in either order; one success event alone
\* does not invoke it.
C2_SuccessIffBothEvents ==
    /\ HandlerSuccess <=> success_events = 2
    /\ success_events = 2 => outcome = "accepted" /\ verack_outcome = "received"
    /\ (outcome = "accepted" /\ verack_outcome = "received" /\ ~HandlerSuccess)
           => (invoked # <<>> /\ invoked[1].by \notin {"version", "verack"})
    /\ (success_events < 2 /\ ~error_raised) => invoked = <<>>

\* C2 witness: the verack arrived first and the accepted version completed
\* the handshake with success.
C2_Witness ==
    /\ invoked = <<[code |-> success, by |-> "version"]>>
    /\ verack_outcome = "received"

\* C3: an accepted version sets the negotiated version to
\* min(peer.value, protocol_maximum).
C3_NegotiatedIsMin ==
    (VersionReceived /\ ConfigurationOk
       /\ BitAnd(peer.services, minimum_services) = minimum_services
       /\ peer.value >= minimum_version)
    => /\ set_calls = 1
       /\ negotiated_version =
              (IF peer.value <= settings.protocol_maximum
               THEN peer.value ELSE settings.protocol_maximum)

\* C3 witness: an accepted version above the configured maximum.
C3_Witness ==
    /\ outcome = "accepted"
    /\ peer.value > settings.protocol_maximum
    /\ negotiated_version = settings.protocol_maximum
    /\ set_calls = 1

\* C4: after a successful handshake the negotiated version lies in
\* [protocol_minimum, protocol_maximum] and the peer's services cover the
\* required ones, whichever constructor was used.
C4_NegotiatedInRange ==
    HandlerSuccess =>
        /\ settings.protocol_minimum <= negotiated_version
        /\ negotiated_version <= settings.protocol_maximum
        /\ BitAnd(peer.services, minimum_services) = minimum_services

C7_SelfConnection ==
    (VersionReceived /\ peer.nonce \in pending /\ ConfigurationOk
       /\ BitAnd(peer.services, minimum_services) = minimum_services
       /\ peer.value >= minimum_version)
    => /\ ~HandlerSuccess
       /\ Commands("verack") = {}
       /\ set_calls = 0
       /\ invoked # <<>>
       /\ invoked[1].by = "version" => invoked[1].code = accept_failed

C9_EventuallyCompletes ==
    /\ (pc = "started") ~> (invoked # <<>>)
    /\ [][(timer = "armed" /\ timer' = "fired") =>
              /\ invoked = <<>> =>
                     invoked' = <<[code |-> channel_timeout, by |-> "timer"]>>
              /\ invoked # <<>> => invoked' = invoked
              /\ UNCHANGED <<negotiated_version, set_calls, sent, subscribed,
                             inflight, channel_is_stopped>>]_vars

\* C9 witness: the timer expired first and the handler reported the timeout.
C9_Witness ==
    /\ invoked = <<[code |-> channel_timeout, by |-> "timer"]>>
    /\ timer = "fired"
    /\ outcome = "none"
    /\ verack_outcome = "none"

\* The fields of the sent version message other than the user agent.
SentVersionFields ==
    /\ sent[1].command = "version"
    /\ sent[1].value = settings.protocol_maximum
    /\ sent[1].services = settings.services
    /\ sent[1].nonce = nonce
    /\ sent[1].address_receiver.ip = authority.ip
    /\ sent[1].address_receiver.port = authority.port
    /\ sent[1].address_receiver.services = 0
    /\ sent[1].address_sender.ip = settings.self.ip
    /\ sent[1].address_sender.port = settings.self.port
    /\ sent[1].address_sender.services = settings.services
    /\ sent[1].start_height = <<height[1], height[2]>>
    /\ (height[3] = 0 /\ height[4] = 0)
           => <<sent[1].start_height[1], sent[1].start_height[2], 0, 0>> = height

SentCommands == [i \in 1..Len(sent) |-> sent[i].command]

\* C11: the local version is submitted at start, before any verack; a verack
\* is submitted only for an accepted peer version, in the step that raises
\* the first success event; so a successful handshake has submitted exactly
\* one version and then exactly one verack.
C11_SendOrder ==
    /\ pc = "started" =>
          /\ Len(sent) >= 1
          /\ sent[1].command = "version"
          /\ Cardinality(Commands("version")) = 1
    /\ Commands("verack") # {} <=> outcome = "accepted"
    /\ Cardinality(Commands("verack")) <= 1
    /\ success_events >= 1 /\ verack_outcome # "received"
           => Commands("verack") # {}
    /\ HandlerSuccess => SentCommands = <<"version", "verack">>

\* C11 witness: success reported by the peer's verack, after the version and
\* the verack were submitted and their sends completed.
C11_Witness ==
    /\ invoked = <<[code |-> success, by |-> "verack"]>>
    /\ SentCommands = <<"version", "verack">>
    /\ inflight = {}

\* C12: each receive handler ends its subscription on every path, so one run
\* calls set_negotiated_version at most once and sends at most one verack and
\* at most one reject, and the negotiated version keeps the value set (or its
\* initial value when none was set).
C12_OneVersionOneVerack ==
    /\ outcome # "none" => "version" \notin subscribed
    /\ verack_outcome # "none" => "verack" \notin subscribed
    /\ set_calls <= 1
    /\ Cardinality(Commands("verack")) <= 1
    /\ Cardinality(Commands("reject")) <= 1
    /\ Cardinality(Commands("verack")) + Cardinality(Commands("reject")) <= 1
    /\ set_calls = 1 =>
           negotiated_version =
               (IF peer.value <= settings.protocol_maximum
                THEN peer.value ELSE settings.protocol_maximum)
    /\ set_calls = 0 => negotiated_version = settings.protocol_minimum

\* C12 witness: both messages were consumed, both subscriptions have ended
\* and the negotiated version set differs from the initial one.
C12_Witness ==
    /\ outcome = "accepted"
    /\ verack_outcome = "received"
    /\ subscribed = {}
    /\ set_calls = 1
    /\ negotiated_version # settings.protocol_minimum

\* An error event was raised by this step.
ErrorRaisedNow ==
    /\ last_event' # last_event
    /\ last_event'.code # success

\* C17: the first error event raised while the handshake is incomplete
\* invokes the handler in that step with exactly its code, whether or not a
\* success event came before; an error raised after the handler was invoked
\* (with success or not) does not invoke it again.
C17_FirstErrorReported ==
    [][/\ (ErrorRaisedNow /\ invoked = <<>>) => invoked' = <<last_event'>>
       /\ (ErrorRaisedNow /\ invoked # <<>>) => invoked' = invoked
       /\ (invoked' # <<>> /\ invoked'[1].code # success /\ invoked = <<>>)
              => ErrorRaisedNow]_vars

\* C17 witness: the handler reported success and the verack send failed
\* afterwards.
C17_Witness ==
    /\ invoked = <<[code |-> success, by |-> "verack"]>>
    /\ last_event = [code |-> bad_stream, by |-> "verack_sent"]

\* The peer's version was rejected for its services or its value.
Rejected == outcome \in {"services", "version"}

\* C18: the step that submits a reject raises ChannelStopped at once, so the
\* handler has fired while the reject is still in flight, and the completion
\* of the reject send, with whatever code, raises no event and leaves the
\* outcome as it was.
C18_RejectNotAwaited ==
    [][/\ (Rejected' /\ ~Rejected) =>
              /\ "reject" \in inflight'
              /\ last_event' = [code |-> channel_stopped, by |-> "version"]
              /\ Len(invoked') = 1
              /\ invoked = <<>> => invoked' = <<last_event'>>
       /\ ("reject" \in inflight /\ "reject" \notin inflight') =>
              UNCHANGED <<invoked, counter, last_event, outcome, sent,
                          negotiated_version>>]_vars

\* C18 witness: the handler reported ChannelStopped for a rejected version
\* whose reject send is still outstanding.
C18_Witness ==
    /\ Rejected
    /\ "reject" \in inflight
    /\ invoked = <<[code |-> channel_stopped, by |-> "version"]>>

\* The reasons of the rejects submitted.
RejectReasons == {sent[i].reason : i \in Commands("reject")}

\* C19: the checks run in the order configuration, services, version, and a
\* version message has one outcome: no reject with an invalid configuration,
\* one insufficient-services reject when services (and maybe the version) are
\* insufficient, insufficient-version only when the services suffice.
C19_CheckOrder ==
    VersionReceived =>
        /\ Cardinality(Commands("reject")) + Cardinality(Commands("verack")) <= 1
        /\ ~ConfigurationOk => Commands("reject") = {}
        /\ (ConfigurationOk
              /\ BitAnd(peer.services, minimum_services) # minimum_services)
               => (RejectReasons = {"insufficient-services"}
                     /\ Cardinality(Commands("reject")) = 1)
        /\ "insufficient-version" \in RejectReasons
               => /\ ConfigurationOk
                  /\ BitAnd(peer.services, minimum_services) = minimum_services
                  /\ peer.value < minimum_version

\* C19 witness: services and version both insufficient, one reject sent.
C19_Witness ==
    /\ VersionReceived
    /\ ConfigurationOk
    /\ BitAnd(peer.services, minimum_services) # minimum_services
    /\ peer.value < minimum_version
    /\ RejectReasons = {"insufficient-services"}

\* C20: once the channel is stopped a receipt or a send completion raises no
\* event, sends nothing and leaves the negotiated version and the outcome
\* alone, and a receive handler called then still ends its subscription.
C20_NoEffectAfterStop ==
    [][channel_is_stopped =>
          /\ UNCHANGED <<invoked, counter, last_event, error_raised,
                         success_events, sent, negotiated_version, set_calls,
                         peer>>
          /\ outcome' # outcome => "version" \notin subscribed'
          /\ verack_outcome' # verack_outcome => "verack" \notin subscribed'
          /\ subscribed' \subseteq subscribed]_vars

\* C20 witness: after the stop both receive handlers and the outstanding
\* version send completion were called.
C20_Witness ==
    /\ channel_is_stopped
    /\ outcome = "stopped"
    /\ verack_outcome = "stopped"
    /\ subscribed = {}
    /\ inflight = {}
    /\ invoked = <<[code |-> channel_stopped, by |-> "stop"]>>

\* An address is IPv4-mapped when its first 96 bits are ::ffff.
IsMapped(ip) == SubSeq(ip, 1, 6) = <<0, 0, 0, 0, 0, 65535>>

\* The text matches the whole pattern (ipv4|[ipv6])(:port)?.
MatchesWholePattern(text) ==
    /\ text # <<>>
    /\ match_at(text, 1).found
    /\ match_at(text, 1).end = Len(text) + 1

\* The well-formed host texts and the address each denotes.
WellFormedHosts ==
    {txt_1234,
     <<"[">> \o txt_native \o <<"]">>,
     <<"[">> \o txt_ffff \o txt_1234 \o <<"]">>,
     <<"[">> \o txt_native_ffff \o <<"]">>}

HostAddress(host) ==
    CASE host = txt_1234 -> ip_mapped
      [] host = <<"[">> \o txt_native \o <<"]">> -> ip_native
      [] host = <<"[">> \o txt_ffff \o txt_1234 \o <<"]">> -> ip_mapped
      [] host = <<"[">> \o txt_native_ffff \o <<"]">> -> ip_native_ffff

Ports == {0, 1, 8333, max_uint16}

\* C13: for every authority A, port 0 included, parsing the text that
\* operator<< writes for A succeeds and yields an authority equal to A.
C13_RoundTrip ==
    argument.stage = "reparsed" =>
        /\ argument.result.valid
        /\ authority_equal(argument.result, argument.value)

\* C14: parsing accepts host alone, host:port and [v6]:port; the text without
\* a port yields the authority with that address and port 0.
C14_ThreeForms ==
    argument.stage = "parsed" =>
        \A host \in WellFormedHosts :
            /\ argument.text = host =>
                   argument.value =
                       [valid |-> TRUE, ip |-> HostAddress(host), port |-> 0]
            /\ \A port \in Ports :
                   argument.text = host \o <<":">> \o Decimal(port) =>
                       argument.value =
                           [valid |-> TRUE, ip |-> HostAddress(host),
                            port |-> port]

\* C15: parsing fails for every text that does not match the whole pattern,
\* text around a matching substring included, and for every text whose port
\* exceeds 65535.
C15_RejectsNonMatching ==
    argument.stage = "parsed" =>
        /\ ~MatchesWholePattern(argument.text) => ~argument.value.valid
        /\ (/\ MatchesWholePattern(argument.text)
            /\ DigitsValue(match_at(argument.text, 1).m5, 0) > max_uint16)
               => ~argument.value.valid

\* C16: an IPv4 text a.b.c.d:p is stored as ::ffff:a.b.c.d with port p and
\* written back as a.b.c.d:p; a native IPv6 authority is written as [v6]:p;
\* a.b.c.d:p and [::ffff:a.b.c.d]:p parse to equal authorities, and equal
\* authorities are those with the same address bytes and the same port.
C16_CanonicalForm ==
    /\ \A port \in Ports \ {0} :
           LET plain == txt_1234 \o <<":">> \o Decimal(port)
               mapped == <<"[">> \o txt_ffff \o txt_1234 \o <<"]", ":">>
                             \o Decimal(port)
           IN  /\ (argument.stage \in {"parsed", "reformatted"}
                      /\ argument.text = plain)
                       => argument.value =
                              [valid |-> TRUE, ip |-> ip_mapped, port |-> port]
               /\ (argument.stage = "reformatted" /\ argument.text = plain)
                       => argument.output = plain
               /\ (argument.stage = "parsed" /\ argument.text = mapped)
                       => /\ argument.value.valid
                          /\ parse_authority(plain).valid
                          /\ authority_equal(argument.value,
                                             parse_authority(plain))
    /\ (/\ argument.stage = "formatted"
        /\ ~IsMapped(argument.value.ip)
        /\ argument.value.port > 0)
           => argument.text =
                  <<"[">> \o address_to_string(argument.value.ip)
                      \o <<"]", ":">> \o Decimal(argument.value.port)
    /\ argument.stage = "formatted" =>
           \A other \in AuthorityValues :
               authority_equal(argument.value, other) <=>
                   (argument.value.ip = other.ip
                       /\ argument.value.port = other.port)

====
